---- MODULE Spec2Model ----
(***************************************************************************)
(* Storage bridges of tinacms (three FaunaBridge revisions), the           *)
(* connection-string resolver parseURL, the FaunaStore capability          *)
(* predicates, and the React components TinaCMSProvider2, TinaQueryInner,  *)
(* ErrorBoundary and MediaPicker.                                          *)
(*                                                                         *)
(*   "dsl"   packages/@tinacms/graphql/.../bridge/fauna.ts  lines 53-173   *)
(*           (faunadb query DSL)                                           *)
(*   "restA" packages/@tinacms/graphql/.../bridge/fauna.ts  lines 572-640  *)
(*           (fetch, bodies built with {...}.toString())                   *)
(*   "restB" packages/@tinacms/datalayer/.../bridge/fauna.ts lines 51-118  *)
(*           (fetch, bodies built with JSON.stringify)                     *)
(*                                                                         *)
(* Strings that the code inspects (document paths, glob prefixes, URLs)    *)
(* are sequences of tokens; payloads are opaque strings.                   *)
(***************************************************************************)
EXTENDS Integers, Sequences, FiniteSets, TLC

VARIABLES variant, docs, calls, nOps, nFaults, settled, lastPut, url, parsed,
          bridge, store, provider, tquery, boundary, picker

vars == <<variant, docs, calls, nOps, nFaults, settled, lastPut, url, parsed,
          bridge, store, provider, tquery, boundary, picker>>

bridgeVars == <<variant, docs, calls, nOps, nFaults, settled, lastPut, bridge>>

urlVars == <<url, parsed>>

\* the state of the React components and of the store wrapper
uiVars == <<store, provider, tquery, boundary, picker>>

(***************************************************************************)
(* Bounds and input sets                                                   *)
(***************************************************************************)
\* number of bridge calls issued in one behaviour
MaxOps == 2

\* number of failing round trips in one behaviour
MaxFaults == 1

Variants == {"dsl", "restA", "restB"}

Clients == {"c1", "c2"}

\* document paths written and read
Paths == {<<"a", "b">>, <<"a", ".">>}

\* prefixes handed to glob
Prefixes == {<<"a">>, <<"a", ".">>}

Payloads == {"x", "y"}

\* payloads of the documents present at the start
SeedPayloads == {"x"}

\* no payload known (history only)
NoValue == "_none_"

Ops == {"get", "glob", "put", "putConfig", "delete"}

WriteOps == {"put", "putConfig", "delete"}

FaultKinds == {"transport", "auth", "server", "nonerror"}


(***************************************************************************)
(* String helpers                                                          *)
(***************************************************************************)
\* String.prototype.startsWith on token sequences
StartsWith(s, q) ==
  /\ Len(q) <= Len(s)
  /\ \A i \in 1..Len(q) : s[i] = q[i]

\* FindStrRegex(s, "^" + q) finds at least one match: q is used as a regular
\* expression, where "." stands for any one character and every other token
\* of the alphabet stands for itself
RegexFindsAtStart(s, q) ==
  /\ Len(q) <= Len(s)
  /\ \A i \in 1..Len(q) : q[i] = "." \/ s[i] = q[i]

\* filepath.split('/').slice(0, -1).join('/')
RECURSIVE LastSlash(_, _)
LastSlash(s, i) ==
  IF i = 0 THEN 0 ELSE IF s[i] = "/" THEN i ELSE LastSlash(s, i - 1)

DirName(s) ==
  IF LastSlash(s, Len(s)) = 0 THEN <<>> ELSE SubSeq(s, 1, LastSlash(s, Len(s)) - 1)

(***************************************************************************)
(* Request bodies.  An object literal carries the fields named in .fields  *)
(***************************************************************************)
EmptyObj == [fields |-> {}, filepath |-> <<>>, filename |-> <<>>, path |-> <<>>, data |-> ""]

\* JSON.stringify(obj): a text from which the object can be parsed back
JSONStringify(obj) == [enc |-> "json", text |-> "", obj |-> obj]

\* obj.toString() of a plain object: the text "[object Object]", whatever
\* the fields of the object are
ObjectToString(obj) == [enc |-> "text", text |-> "[object Object]", obj |-> EmptyObj]

NoBody == [enc |-> "none", text |-> "", obj |-> EmptyObj]

FilepathObj(p) == [EmptyObj EXCEPT !.fields = {"filepath"}, !.filepath = p]

FilepathDataObj(p, d) ==
  [EmptyObj EXCEPT !.fields = {"filepath", "data"}, !.filepath = p, !.data = d]

FilenamePathDataObj(p, d) ==
  [EmptyObj EXCEPT !.fields = {"filename", "path", "data"},
                   !.filename = p, !.path = DirName(p), !.data = d]

(***************************************************************************)
(* The request one bridge call sends                                       *)
(***************************************************************************)
\* query-DSL bridge: the query handed to faunaClient.query
DslRequest(op, p, d) ==
  [method |-> "QUERY",
   route  |-> IF op = "glob" THEN "readDir" ELSE IF op = "get" THEN "get" ELSE "put",
   query  |-> p,
   body   |-> [enc |-> "object", text |-> "", obj |-> FilepathDataObj(p, d)]]

\* REST bridge of graphql/src/database/bridge/fauna.ts
RestARequest(op, p, d) ==
  CASE op = "glob"   -> [method |-> "POST", route |-> "/page-dir", query |-> <<>>,
                         body |-> ObjectToString(FilepathObj(p))]
    [] op = "delete" -> [method |-> "DELETE", route |-> "/page", query |-> <<>>,
                         body |-> ObjectToString(FilepathObj(p))]
    [] op = "get"    -> [method |-> "GET", route |-> "/page", query |-> p, body |-> NoBody]
    [] OTHER         -> [method |-> "POST", route |-> "/page", query |-> <<>>,
                         body |-> ObjectToString(FilenamePathDataObj(p, d))]

\* REST bridge of datalayer/src/database/bridge/fauna.ts
RestBRequest(op, p, d) ==
  CASE op = "glob"   -> [method |-> "POST", route |-> "/page-dir", query |-> <<>>,
                         body |-> JSONStringify(FilepathObj(p))]
    [] op = "delete" -> [method |-> "DELETE", route |-> "/page", query |-> <<>>,
                         body |-> JSONStringify(FilepathObj(p))]
    [] op = "get"    -> [method |-> "GET", route |-> "/page", query |-> p, body |-> NoBody]
    [] OTHER         -> [method |-> "POST", route |-> "/page", query |-> <<>>,
                         body |-> JSONStringify(FilepathDataObj(p, d))]

Request(v, op, p, d) ==
  CASE v = "dsl"   -> DslRequest(op, p, d)
    [] v = "restA" -> RestARequest(op, p, d)
    [] OTHER       -> RestBRequest(op, p, d)

(***************************************************************************)
(* Responses.  kind "resolved": the awaited promise resolved (for fetch:   *)
(* with a Response whose .ok is ok (status 200-299) and whose body parses as JSON iff json);*)
(* kind "rejected": it rejected with a value that is an Error iff isError. *)
(***************************************************************************)
NoResp ==
  [kind |-> "none", status |-> 0, ok |-> FALSE, json |-> FALSE, page |-> "", hasData |-> FALSE,
   data |-> {}, isError |-> FALSE, message |-> ""]

Resolved(status, json, page, hasData, data) ==
  [NoResp EXCEPT !.kind = "resolved", !.status = status,
                 !.ok = (status \in 200..299), !.json = json, !.page = page,
                 !.hasData = hasData, !.data = data]

Rejected(isError, message) ==
  [NoResp EXCEPT !.kind = "rejected", !.isError = isError, !.message = message]

\* body of an acknowledgement and of an error report
AckBody == "{ack}"

ErrorBody == "{error}"

(***************************************************************************)
(* The stored documents: records [ref, filename, page]                     *)
(***************************************************************************)
\* Match(Index('page_by_filename'), filepath)
Match(D, p) == {d \in D : d.filename = p}

\* Get of a set: its first document
FirstDoc(S) == CHOOSE d \in S : \A e \in S : d.ref <= e.ref

NewRef(D) == IF D = {} THEN 1 ELSE 1 + (CHOOSE r \in {d.ref : d \in D} : \A e \in D : e.ref <= r)

\* the write of FaunaBridge.put: Let match = Match(...) in
\* If(IsEmpty(match), Create(...), Update(Select('ref', Get(match)), ...))
FaunaPutAlwaysCreate(D, p, v) == D \cup {[ref |-> NewRef(D), filename |-> p, page |-> v]}

FaunaPutAnyPath(D, p, v) ==
  IF D = {}
  THEN D \cup {[ref |-> NewRef(D), filename |-> p, page |-> v]}
  ELSE (D \ {FirstDoc(D)})
         \cup {[ref |-> FirstDoc(D).ref, filename |-> FirstDoc(D).filename, page |-> v]}

FaunaPut(D, p, v) ==
  IF Match(D, p) = {}
  THEN D \cup {[ref |-> NewRef(D), filename |-> p, page |-> v]}
  ELSE (D \ {FirstDoc(Match(D, p))})
         \cup {[ref |-> FirstDoc(Match(D, p)).ref, filename |-> p, page |-> v]}

\* Select(['data', 'page'], Get(Match(...))): Get of an empty set fails
FaunaGet(D, p) ==
  IF Match(D, p) = {}
  THEN Rejected(TRUE, "instance not found")
  ELSE Resolved(200, TRUE, FirstDoc(Match(D, p)).page, FALSE, {})

\* Map(Paginate(Filter(Documents(...), FindStrRegex(filename, `^${filepath}`) > 0)), filename)
FaunaReadDir(D, q) ==
  Resolved(200, TRUE, "", TRUE, {d.filename : d \in {e \in D : RegexFindsAtStart(e.filename, q)}})

\* evaluation of one query: <<documents afterwards, response>>
FaunaEval(D, req) ==
  CASE req.route = "readDir" -> <<D, FaunaReadDir(D, req.query)>>
    [] req.route = "get"     -> <<D, FaunaGet(D, req.query)>>
    [] OTHER -> <<FaunaPut(D, req.body.obj.filepath, req.body.obj.data),
                  Resolved(200, TRUE, "", FALSE, {})>>

(***************************************************************************)
(* The document service behind the REST bridges (wire shapes: POST         *)
(* /page-dir {filepath}, GET /page?filepath=, POST /page {filepath, data}, *)
(* DELETE /page {filepath}).  A body it cannot read is answered with a     *)
(* non-success status and changes nothing.                                 *)
(***************************************************************************)
ErrorReply(status, json) == Resolved(status, json, ErrorBody, FALSE, {})

ServerUpsert(D, p, v) ==
  IF Match(D, p) = {}
  THEN D \cup {[ref |-> NewRef(D), filename |-> p, page |-> v]}
  ELSE (D \ Match(D, p)) \cup {[ref |-> FirstDoc(Match(D, p)).ref, filename |-> p, page |-> v]}

ServerRead(D, p) ==
  Resolved(200, TRUE, IF Match(D, p) = {} THEN "" ELSE FirstDoc(Match(D, p)).page, FALSE, {})

ServerList(D, q) ==
  Resolved(200, TRUE, "", TRUE, {d.filename : d \in {e \in D : StartsWith(e.filename, q)}})

ServerHandle(D, req, json) ==
  CASE req.method = "GET" -> <<D, ServerRead(D, req.query)>>
    [] req.method = "POST" /\ req.route = "/page-dir" ->
         IF req.body.enc = "json" /\ "filepath" \in req.body.obj.fields
         THEN <<D, ServerList(D, req.body.obj.filepath)>>
         ELSE <<D, ErrorReply(400, json)>>
    [] req.method = "POST" /\ req.route = "/page" ->
         IF req.body.enc = "json" /\ {"filepath", "data"} \subseteq req.body.obj.fields
         THEN <<ServerUpsert(D, req.body.obj.filepath, req.body.obj.data),
                Resolved(200, TRUE, AckBody, FALSE, {})>>
         ELSE <<D, ErrorReply(400, json)>>
    [] OTHER ->
         IF req.body.enc = "json" /\ "filepath" \in req.body.obj.fields
         THEN <<D \ Match(D, req.body.obj.filepath), Resolved(200, TRUE, AckBody, FALSE, {})>>
         ELSE <<D, ErrorReply(400, json)>>

\* a round trip that fails: the query or the fetch rejects, or the service
\* answers with a non-success status (401 for "auth", 500 for "server")
FaultResponse(v, f, json) ==
  CASE f = "transport" -> Rejected(TRUE, "network error")
    [] f = "nonerror"  -> Rejected(FALSE, "")
    [] f = "auth"      -> IF v = "dsl" THEN Rejected(TRUE, "unauthorized")
                                       ELSE ErrorReply(401, json)
    [] OTHER           -> IF v = "dsl" THEN Rejected(TRUE, "internal server error")
                                       ELSE ErrorReply(500, json)

(***************************************************************************)
(* What a bridge method does with the response: its outcome                *)
(***************************************************************************)
Undefined == "_undefined_"

NoOut ==
  [kind |-> "none", ret |-> "", list |-> {}, name |-> "", message |-> "", status |-> ""]

Return(v) == [NoOut EXCEPT !.kind = "return", !.ret = v]

ReturnList(l) == [NoOut EXCEPT !.kind = "return", !.list = l]

Throw(name, message, status) ==
  [NoOut EXCEPT !.kind = "throw", !.name = name, !.message = message, !.status = status]

\* an awaited rejection that the method does not catch
Propagate(resp) == Throw(IF resp.isError THEN "Error" ELSE "NonError", resp.message, "")

\* response.json() of a body that is not JSON
SyntaxError == Throw("SyntaxError", "Unexpected token", "")

AuthMessage == "Unauthorized request to Fauna Database: please ensure your access token is valid."

UnknownMessage == "Unknown error request to Fauna Database: please ensure your access token is valid."

\* query-DSL bridge, get: try { page = await query; return page !== undefined ? page : '' }
\* catch (e) { throw new GraphQLError(...) }
DslGet(resp) ==
  IF resp.kind = "resolved"
  THEN Return(resp.page)
  ELSE IF resp.isError
       THEN Throw("GraphQLError", AuthMessage, resp.message)
       ELSE Throw("GraphQLError", UnknownMessage, "")

\* query-DSL bridge, readDir and glob
DslGlob(resp) ==
  IF resp.kind = "resolved"
  THEN IF resp.hasData THEN ReturnList(resp.data) ELSE ReturnList({})
  ELSE Propagate(resp)

\* query-DSL bridge, put and putConfig
DslPut(resp) ==
  IF resp.kind = "resolved" THEN Return(Undefined) ELSE Propagate(resp)

\* REST bridge (graphql), get: page = await (await fetch(...)).json()
RestAGet(resp) ==
  IF resp.kind = "rejected" THEN Propagate(resp)
  ELSE IF ~resp.json THEN SyntaxError
  ELSE Return(resp.page)

\* REST bridge (graphql), readDir and glob
RestAGlob(resp) ==
  IF resp.kind = "rejected" THEN Propagate(resp)
  ELSE IF ~resp.json THEN SyntaxError
  ELSE IF resp.hasData THEN ReturnList(resp.data) ELSE ReturnList({})

\* REST bridge (graphql), put and putConfig: await (await fetch(...)).json()
RestAPut(resp) ==
  IF resp.kind = "rejected" THEN Propagate(resp)
  ELSE IF ~resp.json THEN SyntaxError
  ELSE Return(Undefined)

\* REST bridges, delete: await fetch(...)
RestDelete(resp) ==
  IF resp.kind = "rejected" THEN Propagate(resp) ELSE Return(Undefined)

\* REST bridge (datalayer), get: page.ok ? page.json() : ''
RestBGet(resp) ==
  IF resp.kind = "rejected" THEN Propagate(resp)
  ELSE IF resp.ok
       THEN IF resp.json THEN Return(resp.page) ELSE SyntaxError
       ELSE Return("")

\* REST bridge (datalayer), readDir and glob
RestBGlob(resp) ==
  IF resp.kind = "rejected" THEN Propagate(resp)
  ELSE IF resp.ok
       THEN IF ~resp.json THEN SyntaxError
            ELSE IF resp.hasData THEN ReturnList(resp.data) ELSE ReturnList({})
       ELSE ReturnList({})

\* REST bridge (datalayer), put: return response.ok ? response.json() : ''
RestBPut(resp) ==
  IF resp.kind = "rejected" THEN Propagate(resp)
  ELSE IF resp.ok
       THEN IF resp.json THEN Return(resp.page) ELSE SyntaxError
       ELSE Return("")

PutConfigSwallow(out) == Return(Undefined)

\* putConfig: await this.put(filepath, data)
PutConfigOf(out) == IF out.kind = "return" THEN Return(Undefined) ELSE out

Outcome(v, op, resp) ==
  CASE v = "dsl" ->
         (CASE op = "get" -> DslGet(resp)
            [] op = "glob" -> DslGlob(resp)
            [] op = "put" -> DslPut(resp)
            [] OTHER -> PutConfigOf(DslPut(resp)))
    [] v = "restA" ->
         (CASE op = "get" -> RestAGet(resp)
            [] op = "glob" -> RestAGlob(resp)
            [] op = "delete" -> RestDelete(resp)
            [] op = "put" -> RestAPut(resp)
            [] OTHER -> PutConfigOf(RestAPut(resp)))
    [] OTHER ->
         (CASE op = "get" -> RestBGet(resp)
            [] op = "glob" -> RestBGlob(resp)
            [] op = "delete" -> RestDelete(resp)
            [] op = "put" -> RestBPut(resp)
            [] OTHER -> PutConfigOf(RestBPut(resp)))

\* the backend requests a method awaits before it returns: get, put, delete
\* and readDir (behind glob) contain one awaited request each and no loop;
\* putConfig awaits put and sends nothing of its own
\* requests a method body sends itself
AwaitedRequests(op) == IF op = "putConfig" THEN 0 ELSE 1

RoundTripsPutConfigOwn(v, op) == IF op = "putConfig" THEN 2 ELSE 1

RoundTrips(v, op) ==
  AwaitedRequests(op) + (IF op = "putConfig" THEN AwaitedRequests("put") ELSE 0)

\* the methods a bridge has: the query-DSL bridge has no delete
HasOp(v, op) == v # "dsl" \/ op # "delete"

(***************************************************************************)
(* The result of parseURL (defined with the resolver below)                *)
(***************************************************************************)
Null == <<"_null_">>

NotParsed ==
  [kind |-> "none", branch |-> Null, clientId |-> Null, isLocalClient |-> FALSE,
   isFaunaClient |-> FALSE, faunaContentUrl |-> Null, message |-> ""]

(***************************************************************************)
(* The bridge object: the argument of its constructor and its fields       *)
(***************************************************************************)
FaunaInits ==
  [accessToken : {"secret"}, domain : {"db.example", "db.other"},
   collection : {"pages"}, rootPath : {"", "/site"}]

DefaultFaunaInit ==
  [accessToken |-> "secret", domain |-> "db.example", collection |-> "pages", rootPath |-> ""]

\* constructor: the query-DSL bridge keeps a client made of accessToken and
\* domain, the REST bridges keep the domain
Construct(v, a) ==
  [rootPath    |-> a.rootPath,
   collection  |-> a.collection,
   domain      |-> IF v = "dsl" THEN Undefined ELSE a.domain,
   faunaClient |-> IF v = "dsl" THEN <<a.accessToken, a.domain>> ELSE <<>>]

FieldsAfterPutRebase(v, op, self) ==
  IF op \in {"put", "putConfig"} THEN [self EXCEPT !.rootPath = ""] ELSE self

\* the fields after a method has run: no method assigns to this.*
FieldsAfter(v, op, self) == self

\* supportsBuilding() { return true }
supportsBuilding(v, self) == TRUE

(***************************************************************************)
(* Components at rest (their state machines are defined further down)      *)
(***************************************************************************)
NoStore == [rev |-> 0, rootPath |-> "", useMemory |-> FALSE, log |-> <<>>]

NoProps ==
  [apiURL |-> Null, clientApiUrl |-> Null, isLocalClient |-> Null,
   clientId |-> Null, branch |-> Null, schema |-> FALSE]

NoProvider == [props |-> NoProps, out |-> [kind |-> "none", message |-> ""]]

NoQueryProps == [query |-> Null, variables |-> "", data |-> ""]

NoQuery ==
  [props |-> NoQueryProps, liveData |-> "", isLoading |-> TRUE,
   passed |-> NoQueryProps, renders |-> 0]

NoBoundary ==
  [propsHasError |-> Undefined, branchData |-> Null,
   hasError |-> Undefined, message |-> "", pageRefresh |-> FALSE, timers |-> 0,
   screen |-> "none", clicks |-> 0]

NoPicker ==
  [configured |-> FALSE, listState |-> "none", directory |-> Undefined,
   offsetHistory |-> <<>>, offset |-> Undefined, hasPrev |-> FALSE, hasNext |-> FALSE,
   nextOffset |-> Undefined, pending |-> <<>>, event |-> "none", steps |-> 0,
   issued |-> 0, shown |-> 0]

UIAtRest ==
  /\ store = NoStore
  /\ provider = NoProvider
  /\ tquery = NoQuery
  /\ boundary = NoBoundary
  /\ picker = NoPicker

(***************************************************************************)
(* Bridge calls.  Each caller has at most one call outstanding:            *)
(*   idle/done -> sent (request under way) -> replied (response under way) *)
(*   -> done (the method returned or threw).                               *)
(* History: clean says that no other write to the same path was            *)
(* outstanding during this write; expect is, for a get, what the completed *)
(* write it follows (with no write in between) leaves: the payload of a    *)
(* put, the empty payload for a delete; seen is, for a glob, the paths     *)
(* stored when the backend evaluated it.  settled[p] is what the last      *)
(* completed, undisturbed write to p leaves; lastPut[p] is the payload of  *)
(* the last put to p the backend has answered, reset by a delete; trips    *)
(* counts the requests of the call that reached the backend or failed.     *)
(***************************************************************************)
IdleCall ==
  [pc |-> "idle", op |-> "get", path |-> <<>>, data |-> "", fault |-> "none",
   resp |-> NoResp, out |-> NoOut, clean |-> FALSE, expect |-> NoValue, seen |-> {},
   trips |-> 0]

InFlight(c) == calls[c].pc \in {"sent", "replied"}

\* the method of c awaits the backend: its request is under way, or it has
\* an answer and another request to send
Awaiting(c) ==
  \/ calls[c].pc = "sent"
  \/ calls[c].pc = "replied" /\ calls[c].trips < RoundTrips(variant, calls[c].op)

WritesInFlight(p) ==
  {c \in Clients : InFlight(c) /\ calls[c].op \in WriteOps /\ calls[c].path = p}

PathOrder == CHOOSE f \in [Paths -> 1..Cardinality(Paths)] : \A p, q \in Paths : p # q => f[p] # f[q]

\* the documents the backend holds when the bridge is constructed: at most
\* one per path
InitialStores ==
  {{[ref |-> PathOrder[p], filename |-> p, page |-> f[p]] : p \in {q \in Paths : f[q] # NoValue}} :
     f \in [Paths -> SeedPayloads \cup {NoValue}]}

\* a bridge constructed with one of the arguments A
InitWith(A) ==
  /\ variant \in Variants
  /\ docs \in InitialStores
  /\ calls = [c \in Clients |-> IdleCall]
  /\ nOps = 0
  /\ nFaults = 0
  /\ settled = [p \in Paths |-> NoValue]
  /\ lastPut = [p \in Paths |-> NoValue]
  /\ bridge \in {[args |-> a, self |-> Construct(variant, a)] : a \in A}
  /\ url = <<>>
  /\ parsed = NotParsed
  /\ UIAtRest

Init == InitWith({DefaultFaunaInit})

InitFault == InitWith(FaunaInits)

\* a caller invokes a bridge method: the request leaves
Issue(c, op, p, d) ==
  /\ calls[c].pc \in {"idle", "done"}
  /\ nOps < MaxOps
  /\ HasOp(variant, op)
  /\ nOps' = nOps + 1
  /\ calls' = [k \in Clients |->
       IF k = c
       THEN [IdleCall EXCEPT !.pc = "sent", !.op = op, !.path = p, !.data = d,
               !.clean = (op \in WriteOps /\ WritesInFlight(p) = {}),
               !.expect = IF op = "get" /\ WritesInFlight(p) = {} THEN settled[p] ELSE NoValue]
       ELSE IF op \in WriteOps /\ InFlight(k) /\ calls[k].path = p /\ calls[k].op # "glob"
            THEN [calls[k] EXCEPT !.clean = FALSE, !.expect = NoValue]
            ELSE calls[k]]
  /\ settled' = IF op \in WriteOps THEN [settled EXCEPT ![p] = NoValue] ELSE settled
  /\ bridge' = [bridge EXCEPT !.self = FieldsAfter(variant, op, @)]
  /\ UNCHANGED <<variant, docs, nFaults, lastPut, url, parsed, uiVars>>

IssueGet(c) == \E p \in Paths : Issue(c, "get", p, "")

IssueGlob(c) == \E q \in Prefixes : Issue(c, "glob", q, "")

IssuePut(c) == \E p \in Paths, d \in Payloads : Issue(c, "put", p, d)

IssuePutConfig(c) == \E p \in Paths, d \in Payloads : Issue(c, "putConfig", p, d)

IssueDelete(c) == \E p \in Paths : Issue(c, "delete", p, "")

\* the backend evaluates the request of c, atomically, and answers
Serve(c) ==
  /\ Awaiting(c)
  /\ \E json \in BOOLEAN :
       LET req == Request(variant, calls[c].op, calls[c].path, calls[c].data)
           res == IF variant = "dsl" THEN FaunaEval(docs, req)
                                     ELSE ServerHandle(docs, req, json)
       IN /\ docs' = res[1]
          /\ calls' = [calls EXCEPT ![c].pc = "replied", ![c].resp = res[2],
                 ![c].trips = calls[c].trips + 1,
                 ![c].seen = IF calls[c].op = "glob" THEN {d.filename : d \in docs} ELSE {}]
  /\ lastPut' =
       IF calls[c].op \in {"put", "putConfig"} THEN [lastPut EXCEPT ![calls[c].path] = calls[c].data]
       ELSE IF calls[c].op = "delete" THEN [lastPut EXCEPT ![calls[c].path] = NoValue]
       ELSE lastPut
  /\ UNCHANGED <<variant, nOps, nFaults, settled, bridge, url, parsed, uiVars>>

\* the round trip of c fails
Fault(c) ==
  /\ Awaiting(c)
  /\ nFaults < MaxFaults
  /\ \E f \in FaultKinds, json \in BOOLEAN :
       /\ f = "nonerror" => variant = "dsl"
       /\ calls' = [calls EXCEPT ![c].pc = "replied", ![c].fault = f,
                                 ![c].trips = calls[c].trips + 1,
                                 ![c].resp = FaultResponse(variant, f, json)]
  /\ nFaults' = nFaults + 1
  /\ UNCHANGED <<variant, docs, nOps, settled, lastPut, bridge, url, parsed, uiVars>>

\* the response reaches the bridge method, which returns or throws
Complete(c) ==
  /\ calls[c].pc = "replied"
  /\ ~Awaiting(c)
  /\ LET out == Outcome(variant, calls[c].op, calls[c].resp)
     IN /\ calls' = [calls EXCEPT ![c].pc = "done", ![c].out = out]
        /\ settled' =
             IF /\ calls[c].op \in WriteOps
                /\ calls[c].clean
                /\ calls[c].resp.kind = "resolved"
                /\ out.kind = "return"
             THEN [settled EXCEPT ![calls[c].path] =
                     IF calls[c].op = "delete" THEN "" ELSE calls[c].data]
             ELSE settled
  /\ bridge' = [bridge EXCEPT !.self = FieldsAfter(variant, calls[c].op, @)]
  /\ UNCHANGED <<variant, docs, nOps, nFaults, lastPut, url, parsed, uiVars>>

Next ==
  \/ \E c \in Clients : IssueGet(c)
  \/ \E c \in Clients : IssueGlob(c)
  \/ \E c \in Clients : IssuePut(c)
  \/ \E c \in Clients : IssuePutConfig(c)
  \/ \E c \in Clients : IssueDelete(c)
  \/ \E c \in Clients : Serve(c)
  \/ \E c \in Clients : Complete(c)

\* concurrent callers, every round trip reaches the backend
Spec == Init /\ [][Next]_vars

NextFault ==
  \/ IssueGet("c1")
  \/ IssueGlob("c1")
  \/ IssuePut("c1")
  \/ IssuePutConfig("c1")
  \/ IssueDelete("c1")
  \/ Serve("c1")
  \/ Fault("c1")
  \/ Complete("c1")

\* one caller, round trips may fail
SpecFault == InitFault /\ [][NextFault]_vars

(***************************************************************************)
(* parseURL (packages/tinacms/src/utils/parseUrl.ts).  A connection string *)
(* is a sequence of tokens: a scheme, a host name, a port, "/" and path    *)
(* segments.                                                               *)
(***************************************************************************)
\* longest path, in segments, of a connection string
MaxSegs == 4

TINA_HOST == <<"content.tinajs.io">>

SchemeTokens == {"https://"}

HostTokens == {"content.tinajs.io", "fauna.example", "localhost"}

PortTokens == {":8080"}

\* path segments; "" is the empty segment (two slashes in a row, or a
\* trailing slash); "a.b" has a character outside url-pattern's charset for
\* named segments (a-zA-Z0-9-_~ %)
Segs == {"content", "github", "abc", "localhost", "a.b", ""}

NamedSegmentTokens == {"content", "github", "abc", "localhost"}

RECURSIVE PathTokens(_)
PathTokens(segs) ==
  IF segs = <<>> THEN <<>>
  ELSE (IF Head(segs) = "" THEN <<"/">> ELSE <<"/", Head(segs)>>) \o PathTokens(Tail(segs))

SegSeqs == UNION {[1..n -> Segs] : n \in 0..MaxSegs}

URLInputs ==
  {scheme \o <<host>> \o port \o PathTokens(segs) :
     scheme \in {<<>>, <<"https://">>}, host \in HostTokens,
     port \in {<<>>, <<":8080">>}, segs \in SegSeqs}

\* url.includes('localhost')
IncludesLocalhost(u) == \E i \in 1..Len(u) : u[i] = "localhost"

HostIsLocalhost(u) == Len(u) >= 2 /\ u[2] = "localhost"

\* new URL(url) succeeds: the string is an absolute URL
IsAbsoluteURL(u) ==
  /\ Len(u) >= 2
  /\ u[1] \in SchemeTokens
  /\ u[2] \in HostTokens
  /\ Len(u) >= 3 => u[3] \in PortTokens \cup {"/"}
  /\ \A i \in 4..Len(u) : u[i] \notin SchemeTokens \cup PortTokens

HasPort(u) == Len(u) >= 3 /\ u[3] \in PortTokens

\* params.host: the host name and the port, if one is given
HostOf(u) == IF HasPort(u) THEN <<u[2], u[3]>> ELSE <<u[2]>>

\* params.pathname: "/" when the URL has no path
PathnameOf(u) ==
  LET rest == SubSeq(u, IF HasPort(u) THEN 4 ELSE 3, Len(u))
  IN IF rest = <<>> THEN <<"/">> ELSE rest

\* new UrlPattern('/content/:clientId/github/*').match(pathname) is not null
PatternMatches(path) ==
  /\ Len(path) >= 7
  /\ path[1] = "/" /\ path[2] = "content" /\ path[3] = "/"
  /\ path[4] \in NamedSegmentTokens
  /\ path[5] = "/" /\ path[6] = "github" /\ path[7] = "/"

\* result?.clientId and result?._ ; undefined is Null, '' is <<>>
ClientIdOf(path) == IF PatternMatches(path) THEN <<path[4]>> ELSE Null

BranchOf(path) == IF PatternMatches(path) THEN SubSeq(path, 8, Len(path)) ELSE Null

FalsyUndefinedOnly(x) == x = Null

\* !x for a string or undefined
Falsy(x) == x = Null \/ x = <<>>

LocalResult == [NotParsed EXCEPT !.kind = "return", !.isLocalClient = TRUE]

FaunaResult(u) == [NotParsed EXCEPT !.kind = "return", !.isFaunaClient = TRUE, !.faunaContentUrl = u]

HostedResult(branch, clientId) ==
  [NotParsed EXCEPT !.kind = "return", !.branch = branch, !.clientId = clientId]

InvalidURL == [NotParsed EXCEPT !.kind = "throw", !.message = "Invalid URL"]

FormatError == [NotParsed EXCEPT !.kind = "throw", !.message = "Invalid URL format provided"]

parseURLNoFormatCheck(u) ==
  IF IncludesLocalhost(u) THEN LocalResult
  ELSE IF ~IsAbsoluteURL(u) THEN InvalidURL
  ELSE IF HostOf(u) # TINA_HOST THEN FaunaResult(u)
  ELSE HostedResult(BranchOf(PathnameOf(u)), ClientIdOf(PathnameOf(u)))

parseURLLocalhostHost(u) ==
  IF ~IsAbsoluteURL(u) THEN InvalidURL
  ELSE IF HostIsLocalhost(u) THEN LocalResult
  ELSE IF HostOf(u) # TINA_HOST THEN FaunaResult(u)
  ELSE IF Falsy(BranchOf(PathnameOf(u))) \/ Falsy(ClientIdOf(PathnameOf(u))) THEN FormatError
  ELSE HostedResult(BranchOf(PathnameOf(u)), ClientIdOf(PathnameOf(u)))

parseURLFormatFirst(u) ==
  IF IncludesLocalhost(u) THEN LocalResult
  ELSE IF ~IsAbsoluteURL(u) THEN InvalidURL
  ELSE IF Falsy(BranchOf(PathnameOf(u))) \/ Falsy(ClientIdOf(PathnameOf(u))) THEN FormatError
  ELSE IF HostOf(u) # TINA_HOST THEN FaunaResult(u)
  ELSE HostedResult(BranchOf(PathnameOf(u)), ClientIdOf(PathnameOf(u)))

parseURL(u) ==
  IF IncludesLocalhost(u) THEN LocalResult
  ELSE IF ~IsAbsoluteURL(u) THEN InvalidURL
  ELSE IF HostOf(u) # TINA_HOST THEN FaunaResult(u)
  ELSE IF Falsy(BranchOf(PathnameOf(u))) \/ Falsy(ClientIdOf(PathnameOf(u))) THEN FormatError
  ELSE HostedResult(BranchOf(PathnameOf(u)), ClientIdOf(PathnameOf(u)))

\* no bridge call is made
BridgeAtRest ==
  /\ variant = "dsl"
  /\ docs = {}
  /\ calls = [c \in Clients |-> IdleCall]
  /\ nOps = 0
  /\ nFaults = 0
  /\ settled = [p \in Paths |-> NoValue]
  /\ lastPut = [p \in Paths |-> NoValue]
  /\ bridge = [args |-> DefaultFaunaInit, self |-> Construct("dsl", DefaultFaunaInit)]

InitURL ==
  /\ BridgeAtRest
  /\ url \in URLInputs
  /\ parsed = NotParsed
  /\ UIAtRest

\* the provider resolves its apiURL
Resolve ==
  /\ parsed.kind = "none"
  /\ parsed' = parseURL(url)
  /\ UNCHANGED <<bridgeVars, url, uiVars>>

NextURL == Resolve

SpecURL == InitURL /\ [][NextURL]_vars

(***************************************************************************)
(* FaunaStore (datalayer/src/database/store/fauna.ts): two revisions of a  *)
(* LevelStore subclass that add two capability predicates.  store.log is   *)
(* the sequence of predicate calls made so far with their results.         *)
(***************************************************************************)
\* number of predicate calls in one behaviour
MaxQueries == 3

\* first revision (lines 3-13), later revision (lines 17-27)
StoreRevisions == {1, 2}

RootPaths == {"", "/site", "/other"}

\* the useMemory argument; it may be left out
UseMemoryArgs == {"omitted", "true", "false"}

\* constructor(rootPath: string, useMemory: boolean = false)
NewFaunaStore(rev, rootPath, useMemory) ==
  [rev |-> rev, rootPath |-> rootPath,
   useMemory |-> IF useMemory = "omitted" THEN FALSE ELSE useMemory = "true",
   log |-> <<>>]

supportsSeedingInMemory(st) == st.useMemory

\* supportsSeeding() { return true } / { return false }
supportsSeeding(st) == IF st.rev = 1 THEN TRUE ELSE FALSE

\* supportsIndexing() { return false }
supportsIndexing(st) == FALSE

InitStore ==
  /\ BridgeAtRest
  /\ url = <<>>
  /\ parsed = NotParsed
  /\ store \in {NewFaunaStore(r, p, u) : r \in StoreRevisions, p \in RootPaths, u \in UseMemoryArgs}
  /\ provider = NoProvider
  /\ tquery = NoQuery
  /\ boundary = NoBoundary
  /\ picker = NoPicker

CallSupportsSeeding ==
  /\ Len(store.log) < MaxQueries
  /\ store' = [store EXCEPT !.log =
       Append(@, [method |-> "supportsSeeding", result |-> supportsSeeding(store)])]
  /\ UNCHANGED <<bridgeVars, urlVars, provider, tquery, boundary, picker>>

CallSupportsIndexing ==
  /\ Len(store.log) < MaxQueries
  /\ store' = [store EXCEPT !.log =
       Append(@, [method |-> "supportsIndexing", result |-> supportsIndexing(store)])]
  /\ UNCHANGED <<bridgeVars, urlVars, provider, tquery, boundary, picker>>

NextStore ==
  \/ CallSupportsSeeding
  \/ CallSupportsIndexing

SpecStore == InitStore /\ [][NextStore]_vars

(***************************************************************************)
(* TinaCMSProvider2 (tinacms/src/tina-cms.tsx): the checks it makes on its *)
(* props before it renders.  Strings are token sequences as above, Null is *)
(* undefined; provider.props.clientApiUrl is props.client?.apiUrl.         *)
(***************************************************************************)
JSTrue == <<"true">>

JSFalse == <<"false">>

\* conversion of undefined, a string or a boolean to a boolean
ToBoolean(x) == x \notin {Null, <<>>, JSFalse}

\* new Boolean(x): an object that wraps the converted value
NewBoolean(x) == [object |-> "Boolean", value |-> ToBoolean(x)]

\* conversion of an object to a boolean: every object converts to true
ObjectToBoolean(o) == TRUE

\* a || b and a && b of objects
JSOr(a, b) == IF ObjectToBoolean(a) THEN a ELSE b

JSAnd(a, b) == IF ObjectToBoolean(a) THEN b ELSE a

validOldSetup(props) ==
  JSOr(NewBoolean(props.isLocalClient),
       JSAnd(NewBoolean(props.clientId), NewBoolean(props.branch)))

\* props?.client?.apiUrl || props?.apiURL
apiURLOf(props) == IF ~Falsy(props.clientApiUrl) THEN props.clientApiUrl ELSE props.apiURL

MustProvideMessage == "Must provide apiUrl or a client to the TinaWrapper component"

SchemaMessage == "schema is required to be passed as a property to TinaProvider"

\* the provider up to its return statement
TinaCMSProvider2(props) ==
  IF Falsy(apiURLOf(props)) /\ ~ObjectToBoolean(validOldSetup(props))
  THEN [kind |-> "throw", message |-> MustProvideMessage]
  ELSE IF ~Falsy(props.apiURL) /\ parseURL(props.apiURL).kind = "throw"
  THEN [kind |-> "throw", message |-> parseURL(props.apiURL).message]
  ELSE IF ~props.schema
  THEN [kind |-> "throw", message |-> SchemaMessage]
  ELSE [kind |-> "render", message |-> ""]

\* apiURL props: none, empty, a local URL, a hosted URL, a hosted URL
\* without client and branch, a string that is no URL
ApiURLs ==
  {Null, <<>>,
   <<"https://", "localhost", ":8080">>,
   <<"https://", "content.tinajs.io", "/", "content", "/", "abc", "/", "github", "/", "abc">>,
   <<"https://", "content.tinajs.io">>,
   <<"content.tinajs.io">>}

ClientApiUrls ==
  {Null, <<>>,
   <<"https://", "content.tinajs.io", "/", "content", "/", "abc", "/", "github", "/", "abc">>}

ProviderProps ==
  [apiURL : ApiURLs, clientApiUrl : ClientApiUrls, isLocalClient : {Null, JSFalse, JSTrue},
   clientId : {Null, <<>>, <<"abc">>}, branch : {Null, <<>>, <<"main">>},
   schema : BOOLEAN]

InitProvider ==
  /\ BridgeAtRest
  /\ url = <<>>
  /\ parsed = NotParsed
  /\ store = NoStore
  /\ provider \in {[NoProvider EXCEPT !.props = q] : q \in ProviderProps}
  /\ tquery = NoQuery
  /\ boundary = NoBoundary
  /\ picker = NoPicker

\* React renders the provider
RenderProvider ==
  /\ provider.out.kind = "none"
  /\ provider' = [provider EXCEPT !.out = TinaCMSProvider2(provider.props)]
  /\ UNCHANGED <<bridgeVars, urlVars, store, tquery, boundary, picker>>

NextProvider == RenderProvider

SpecProvider == InitProvider /\ [][NextProvider]_vars

(***************************************************************************)
(* TinaQueryInner (tinacms/src/tina-cms.tsx): what it hands to the page's  *)
(* children function.  tquery.props are the props from getStaticProps,     *)
(* tquery.liveData and tquery.isLoading what the useTina hook returned in  *)
(* the latest render (the hook is outside these sources: it may return any *)
(* data and either flag; TinaDataProvider starts with isLoading true),     *)
(* tquery.passed the argument of the latest call of children.              *)
(***************************************************************************)
\* number of renders in one behaviour
MaxRenders == 3

Queries == {Null, <<>>, <<"query">>}

StaticData == {"static1", "static2", "static3"}

LiveData == {"live1", "live2", Undefined}

ChildrenArgWhileLoading(props, liveData, isLoading) ==
  IF Falsy(props.query) THEN props ELSE [props EXCEPT !.data = liveData]

\* isLoading || !props.query ? props : { ...props, data: liveData }
ChildrenArg(props, liveData, isLoading) ==
  IF isLoading \/ Falsy(props.query) THEN props ELSE [props EXCEPT !.data = liveData]

InitQuery ==
  /\ BridgeAtRest
  /\ url = <<>>
  /\ parsed = NotParsed
  /\ store = NoStore
  /\ provider = NoProvider
  /\ tquery \in {[NoQuery EXCEPT !.props = [query |-> q, variables |-> "vars", data |-> d]] :
                   q \in Queries, d \in StaticData}
  /\ boundary = NoBoundary
  /\ picker = NoPicker

\* React renders TinaQueryInner: the hook returns, children is called
RenderQueryInner ==
  /\ tquery.renders < MaxRenders
  /\ \E live \in LiveData, loading \in BOOLEAN :
       tquery' = [tquery EXCEPT !.liveData = live, !.isLoading = loading,
                                !.passed = ChildrenArg(tquery.props, live, loading),
                                !.renders = @ + 1]
  /\ UNCHANGED <<bridgeVars, urlVars, store, provider, boundary, picker>>

NextQuery == RenderQueryInner

SpecQuery == InitQuery /\ [][NextQuery]_vars

(***************************************************************************)
(* ErrorBoundary (tinacms/src/tina-cms.tsx).  boundary.hasError,           *)
(* boundary.message and boundary.pageRefresh are this.state;               *)
(* boundary.timers counts the pending setTimeout callbacks, boundary.screen*)
(* is what the latest render returned, boundary.clicks counts the clicks   *)
(* on Refresh, boundary.branchData is the local-storage item               *)
(* 'tinacms-current-branch'.  hasError is "true", "false" or undefined.    *)
(***************************************************************************)
\* number of clicks on Refresh in one behaviour
MaxClicks == 3

HasErrorProps == {Undefined, "true", "false"}

ErrorMessages == {"m1", "m2"}

BranchData == {Null, <<>>, <<"main">>}

renderErrorFirst(st) ==
  IF st.hasError = "true" THEN "error"
  ELSE IF st.pageRefresh THEN "loader"
  ELSE "children"

\* render(): the error screen, the loader, or the children
render(st) ==
  IF st.hasError = "true" /\ ~st.pageRefresh THEN "error"
  ELSE IF st.pageRefresh THEN "loader"
  ELSE "children"

\* constructor, then the first render
NewBoundary(hasError, branchData) ==
  LET st == [NoBoundary EXCEPT !.propsHasError = hasError, !.branchData = branchData,
                               !.hasError = hasError]
  IN [st EXCEPT !.screen = render(st)]

InitBoundary ==
  /\ BridgeAtRest
  /\ url = <<>>
  /\ parsed = NotParsed
  /\ store = NoStore
  /\ provider = NoProvider
  /\ tquery = NoQuery
  /\ boundary \in {NewBoundary(h, b) : h \in HasErrorProps, b \in BranchData}
  /\ picker = NoPicker

\* a child throws while rendering: getDerivedStateFromError, then render
CatchError ==
  /\ boundary.screen = "children"
  /\ \E msg \in ErrorMessages :
       LET st == [boundary EXCEPT !.hasError = "true", !.message = msg]
       IN boundary' = [st EXCEPT !.screen = render(st)]
  /\ UNCHANGED <<bridgeVars, urlVars, store, provider, tquery, picker>>

\* click on Refresh (shown on the error screen): setState({ pageRefresh:
\* true }), setTimeout(..., 3000), then render
ClickRefresh ==
  /\ boundary.screen = "error"
  /\ boundary.clicks < MaxClicks
  /\ LET st == [boundary EXCEPT !.pageRefresh = TRUE, !.timers = @ + 1, !.clicks = @ + 1]
     IN boundary' = [st EXCEPT !.screen = render(st)]
  /\ UNCHANGED <<bridgeVars, urlVars, store, provider, tquery, picker>>

\* the timer fires: setState({ hasError: false, pageRefresh: false }), then
\* render
TimerFires ==
  /\ boundary.timers > 0
  /\ LET st == [boundary EXCEPT !.hasError = "false", !.pageRefresh = FALSE, !.timers = @ - 1]
     IN boundary' = [st EXCEPT !.screen = render(st)]
  /\ UNCHANGED <<bridgeVars, urlVars, store, provider, tquery, picker>>

\* click on 'Switch to default branch' (shown on the error screen when the
\* item is set): the item is removed and the page reloads
SwitchToDefaultBranch ==
  /\ boundary.screen = "error"
  /\ boundary.branchData \notin {Null, <<>>}
  /\ boundary' = [NewBoundary(boundary.propsHasError, Null) EXCEPT !.clicks = boundary.clicks]
  /\ UNCHANGED <<bridgeVars, urlVars, store, provider, tquery, picker>>

NextBoundary ==
  \/ CatchError
  \/ ClickRefresh
  \/ TimerFires
  \/ SwitchToDefaultBranch

\* the event loop runs a pending timer callback
SpecBoundary == InitBoundary /\ [][NextBoundary]_vars /\ WF_vars(TimerFires)

(***************************************************************************)
(* MediaPicker (with the sources of graphql/src/database/bridge/fauna.ts): *)
(* paging through the media list.  picker.offsetHistory, picker.directory, *)
(* picker.listState are the component's state, picker.nextOffset is        *)
(* list.nextOffset; picker.offset, picker.hasPrev and picker.hasNext are   *)
(* the values computed in the latest render; picker.pending are the        *)
(* cms.media.list requests not yet answered, oldest first; picker.event is *)
(* the handler that ran last and picker.steps counts the navigations,      *)
(* directory changes and reload events.  History: picker.issued numbers    *)
(* the list requests in the order they are started, and picker.shown is    *)
(* the number of the request whose answer or failure was applied last.     *)
(***************************************************************************)
\* number of navigations and reload events in one behaviour
MaxSteps == 4

\* number of list requests under way at once
MaxPending == 2

\* offsets a media store hands out as nextOffset: non-empty cursors
Offsets == {"o1", "o2"}

NextOffsets == Offsets \cup {Undefined}

Directories == {Undefined, "/img", "/img/sub"}

\* !!x for a cursor or undefined
Truthy(x) == x \notin {Undefined, ""}

\* s.slice(0, end): a negative end counts from the end of the array
SliceTo(h, end) ==
  LET e == IF end < 0 THEN (IF Len(h) + end < 0 THEN 0 ELSE Len(h) + end)
           ELSE IF end > Len(h) THEN Len(h) ELSE end
  IN SubSeq(h, 1, e)

\* offsetHistory[offsetHistory.length - 1]
offset(h) == IF Len(h) = 0 THEN Undefined ELSE h[Len(h)]

navigateNextReplace(st) ==
  IF ~Truthy(st.nextOffset) THEN st.offsetHistory
  ELSE Append(SliceTo(st.offsetHistory, Len(st.offsetHistory) - 1), st.nextOffset)

\* navigateNext: the history it sets (the one it leaves when it returns early)
navigateNext(st) ==
  IF ~Truthy(st.nextOffset) THEN st.offsetHistory
  ELSE Append(st.offsetHistory, st.nextOffset)

\* navigatePrev: the history it sets
navigatePrev(st) == SliceTo(st.offsetHistory, Len(st.offsetHistory) - 1)

\* loadMedia up to the request: setListState('loading'), cms.media.list(...)
loadMedia(st) ==
  [st EXCEPT !.listState = "loading",
             !.issued = @ + 1,
             !.pending = Append(@, [offset |-> st.offset, directory |-> st.directory,
                                    id |-> st.issued + 1])]

\* the render after a state change, and the effect, which runs loadMedia
\* when offset or directory differ from the previous render
Rerender(old, new) ==
  LET st == [new EXCEPT !.offset = offset(new.offsetHistory),
                        !.hasPrev = Len(new.offsetHistory) > 0,
                        !.hasNext = Truthy(new.nextOffset)]
  IN IF st.configured /\ (st.offset # old.offset \/ st.directory # old.directory)
     THEN loadMedia(st) ELSE st

\* the first render and its effect
NewPicker(configured, directory) ==
  LET st == [NoPicker EXCEPT !.configured = configured, !.directory = directory,
                             !.listState = IF configured THEN "loading" ELSE "not-configured"]
  IN IF configured THEN loadMedia(st) ELSE st

InitPicker ==
  /\ BridgeAtRest
  /\ url = <<>>
  /\ parsed = NotParsed
  /\ store = NoStore
  /\ provider = NoProvider
  /\ tquery = NoQuery
  /\ boundary = NoBoundary
  /\ picker \in {NewPicker(c, d) : c \in BOOLEAN, d \in Directories}

\* the paginator is on screen
PaginatorShown == picker.listState = "loaded"

NavigateNext ==
  /\ PaginatorShown
  /\ picker.steps < MaxSteps
  /\ Len(picker.pending) < MaxPending
  /\ picker' = Rerender(picker, [picker EXCEPT !.offsetHistory = navigateNext(picker),
                                               !.event = "navigateNext", !.steps = @ + 1])
  /\ UNCHANGED <<bridgeVars, urlVars, store, provider, tquery, boundary>>

NavigatePrev ==
  /\ PaginatorShown
  /\ picker.steps < MaxSteps
  /\ Len(picker.pending) < MaxPending
  /\ picker' = Rerender(picker, [picker EXCEPT !.offsetHistory = navigatePrev(picker),
                                               !.event = "navigatePrev", !.steps = @ + 1])
  /\ UNCHANGED <<bridgeVars, urlVars, store, provider, tquery, boundary>>

\* onClickMediaItem of a directory item (the items are on screen with the
\* paginator): setDirectory(path.join(item.directory, item.filename)),
\* resetOffset(), re-render, effect
ClickDirectoryItem ==
  /\ PaginatorShown
  /\ picker.steps < MaxSteps
  /\ Len(picker.pending) < MaxPending
  /\ \E d \in Directories \ {Undefined, picker.directory} :
       picker' = Rerender(picker, [picker EXCEPT !.directory = d, !.offsetHistory = <<>>,
                                                 !.event = "clickDirectory", !.steps = @ + 1])
  /\ UNCHANGED <<bridgeVars, urlVars, store, provider, tquery, boundary>>

\* the breadcrumb (on screen with the paginator) calls the setDirectory it
\* was handed: the state setter itself
BreadcrumbSetDirectory ==
  /\ PaginatorShown
  /\ picker.steps < MaxSteps
  /\ Len(picker.pending) < MaxPending
  /\ \E d \in Directories \ {picker.directory} :
       picker' = Rerender(picker, [picker EXCEPT !.directory = d,
                                                 !.event = "breadcrumb", !.steps = @ + 1])
  /\ UNCHANGED <<bridgeVars, urlVars, store, provider, tquery, boundary>>

\* 'media:upload:success', 'media:delete:success' or 'media:pageSize': the
\* subscribed loadMedia runs
ReloadEvent ==
  /\ picker.configured
  /\ picker.steps < MaxSteps
  /\ Len(picker.pending) < MaxPending
  /\ picker' = [loadMedia(picker) EXCEPT !.event = "reload", !.steps = @ + 1]
  /\ UNCHANGED <<bridgeVars, urlVars, store, provider, tquery, boundary>>

\* a list request is answered: setList(list), setListState('loaded')
ListLoaded ==
  /\ \E i \in 1..Len(picker.pending), n \in NextOffsets :
       picker' = Rerender(picker,
         [picker EXCEPT !.nextOffset = n, !.listState = "loaded", !.event = "loaded",
            !.shown = picker.pending[i].id,
            !.pending = SubSeq(@, 1, i - 1) \o SubSeq(@, i + 1, Len(@))])
  /\ UNCHANGED <<bridgeVars, urlVars, store, provider, tquery, boundary>>

\* a list request fails: setListError(...), setListState('error')
ListFailed ==
  /\ \E i \in 1..Len(picker.pending) :
       picker' = Rerender(picker,
         [picker EXCEPT !.listState = "error", !.event = "failed",
            !.shown = picker.pending[i].id,
            !.pending = SubSeq(@, 1, i - 1) \o SubSeq(@, i + 1, Len(@))])
  /\ UNCHANGED <<bridgeVars, urlVars, store, provider, tquery, boundary>>

NextPicker ==
  \/ NavigateNext
  \/ NavigatePrev
  \/ ClickDirectoryItem
  \/ BreadcrumbSetDirectory
  \/ ReloadEvent
  \/ ListLoaded
  \/ ListFailed

SpecPicker == InitPicker /\ [][NextPicker]_vars

(***************************************************************************)
(* Properties of parseURL (checked under SpecURL)                          *)
(***************************************************************************)
IsLocalVariant(r) ==
  /\ r.isLocalClient /\ ~r.isFaunaClient
  /\ r.branch = Null /\ r.clientId = Null /\ r.faunaContentUrl = Null

IsHostedVariant(r) ==
  /\ ~r.isLocalClient /\ ~r.isFaunaClient
  /\ r.branch # Null /\ r.branch # <<>> /\ r.clientId # Null /\ r.clientId # <<>>
  /\ r.faunaContentUrl = Null

IsRemoteDocumentVariant(r) ==
  /\ r.isFaunaClient /\ ~r.isLocalClient
  /\ r.faunaContentUrl # Null
  /\ r.branch = Null /\ r.clientId = Null

\* the fields a variant requires
RequiredFieldsMet(r) ==
  {k \in {"local", "hosted", "remote"} :
     \/ k = "local" /\ r.isLocalClient
     \/ k = "hosted" /\ r.branch # Null /\ r.branch # <<>> /\ r.clientId # Null /\ r.clientId # <<>>
     \/ k = "remote" /\ r.isFaunaClient /\ r.faunaContentUrl # Null}

\* C5: every value parseURL returns is exactly one of the local, hosted and
\* remote-document variants, and meets the required fields of one variant only
C5_ExclusiveVariants ==
  parsed.kind = "return" =>
    /\ Cardinality({k \in {1, 2, 3} :
          \/ k = 1 /\ IsLocalVariant(parsed)
          \/ k = 2 /\ IsHostedVariant(parsed)
          \/ k = 3 /\ IsRemoteDocumentVariant(parsed)}) = 1
    /\ Cardinality(RequiredFieldsMet(parsed)) = 1

C5_Witness == parsed.kind = "return" /\ IsHostedVariant(parsed)

\* the segment in the :clientId place of /content/:clientId/github/*, <<>>
\* when the path has none
TemplateClientId(path) ==
  IF Len(path) >= 4 /\ SubSeq(path, 1, 3) = <<"/", "content", "/">> /\ path[4] # "/"
  THEN <<path[4]>> ELSE <<>>

\* what follows /content/:clientId/github/ , <<>> when nothing does
TemplateBranch(path) ==
  IF /\ TemplateClientId(path) # <<>>
     /\ Len(path) >= 7
     /\ SubSeq(path, 5, 7) = <<"/", "github", "/">>
  THEN SubSeq(path, 8, Len(path)) ELSE <<>>

HostedHost(u) == IsAbsoluteURL(u) /\ HostOf(u) = TINA_HOST

\* C6 as stated: for every connection string whose host is content.tinajs.io
\* parseURL returns the hosted variant with the template's clientId and
\* branch, or throws the format error; it throws when either is absent or empty
C6_Original ==
  (parsed.kind # "none" /\ HostedHost(url)) =>
    /\ \/ parsed = FormatError
       \/ /\ parsed.kind = "return" /\ IsHostedVariant(parsed)
          /\ parsed.clientId = TemplateClientId(PathnameOf(url))
          /\ parsed.branch = TemplateBranch(PathnameOf(url))
    /\ (TemplateClientId(PathnameOf(url)) = <<>> \/ TemplateBranch(PathnameOf(url)) = <<>>)
         => parsed = FormatError

\* C6 (amended): the same for connection strings that do not contain
\* 'localhost'; moreover a path that matches the template with a non-empty
\* branch yields the hosted variant
C6_HostedOrFormatError ==
  (parsed.kind # "none" /\ HostedHost(url) /\ ~IncludesLocalhost(url)) =>
    /\ \/ parsed = FormatError
       \/ /\ parsed.kind = "return" /\ IsHostedVariant(parsed)
          /\ parsed.clientId = TemplateClientId(PathnameOf(url))
          /\ parsed.branch = TemplateBranch(PathnameOf(url))
    /\ (TemplateClientId(PathnameOf(url)) = <<>> \/ TemplateBranch(PathnameOf(url)) = <<>>)
         => parsed = FormatError
    /\ (/\ TemplateBranch(PathnameOf(url)) # <<>>
        /\ TemplateClientId(PathnameOf(url))[1] \in NamedSegmentTokens)
         => parsed.kind = "return"

C6_Witness ==
  /\ HostedHost(url) /\ ~IncludesLocalhost(url)
  /\ parsed.kind = "return"
  /\ parsed.clientId = <<"abc">>
  /\ parsed.branch = <<"abc">>

\* C7: a connection string that contains 'localhost' anywhere yields the
\* local variant, and never a failure
C7_LocalhostIsLocal ==
  (parsed.kind # "none" /\ IncludesLocalhost(url)) =>
    /\ parsed.kind = "return"
    /\ parsed.isLocalClient /\ ~parsed.isFaunaClient
    /\ parsed.branch = Null /\ parsed.clientId = Null /\ parsed.faunaContentUrl = Null

\* 'localhost' in a string that is not a URL
C7_Witness ==
  /\ parsed.kind = "return"
  /\ IncludesLocalhost(url)
  /\ ~IsAbsoluteURL(url)

\* C8: an absolute URL without 'localhost' whose host is not the hosted
\* host yields the remote-document variant with the URL verbatim, whatever
\* its path, and never a format error
C8_OtherHostIsRemoteDocument ==
  (parsed.kind # "none" /\ ~IncludesLocalhost(url) /\ IsAbsoluteURL(url) /\ HostOf(url) # TINA_HOST) =>
    /\ parsed.kind = "return"
    /\ parsed.isFaunaClient /\ ~parsed.isLocalClient
    /\ parsed.faunaContentUrl = url
    /\ parsed.branch = Null /\ parsed.clientId = Null

\* another host, with a path that does not match the hosted template
C8_Witness ==
  /\ parsed.kind = "return"
  /\ parsed.isFaunaClient
  /\ HostOf(url) = <<"fauna.example">>
  /\ PathnameOf(url) = <<"/", "abc">>

(***************************************************************************)
(* Properties of the bridges (checked under Spec)                          *)
(***************************************************************************)
Done(c) == calls[c].pc = "done"

\* the round trip of a finished call failed: the promise rejected, or the
\* service answered with a non-success status
RoundTripFailed(c) ==
  \/ calls[c].resp.kind = "rejected"
  \/ calls[c].resp.kind = "resolved" /\ ~calls[c].resp.ok

\* C1: in every bridge variant, a get(p) that follows a completed put(p, v)
\* with no write to p in between returns exactly v
C1_PutThenGet ==
  \A c \in Clients :
    (/\ Done(c) /\ calls[c].op = "get"
     /\ calls[c].expect \in Payloads)
    => (calls[c].out.kind = "return" /\ calls[c].out.ret = calls[c].expect)

\* C2: a get(p) that follows a completed delete(p) returns the empty
\* payload; a delete completes without error, and one of a path that has no
\* document leaves the stored documents unchanged
C2_DeleteThenGet ==
  /\ [](\A c \in Clients :
          Done(c) =>
            /\ (calls[c].op = "get" /\ calls[c].expect = "")
                 => (calls[c].out.kind = "return" /\ calls[c].out.ret = "")
            /\ calls[c].op = "delete" => calls[c].out.kind = "return")
  /\ [][\A c \in Clients :
          (/\ calls[c].pc = "sent" /\ calls'[c].pc = "replied"
           /\ calls[c].op = "delete"
           /\ Match(docs, calls[c].path) = {})
          => docs' = docs]_vars

\* C3: glob(q) of the query-DSL bridge and of the datalayer REST bridge
\* returns exactly the stored paths that start with the literal string q,
\* the empty list when there is none
C3_GlobIsPrefixFilter ==
  \A c \in Clients :
    (/\ Done(c) /\ calls[c].op = "glob"
     /\ variant \in {"dsl", "restB"})
    => /\ calls[c].out.kind = "return"
       /\ calls[c].out.list = {p \in calls[c].seen : StartsWith(p, calls[c].path)}

C9_FailurePropagates ==
  \A c \in Clients : (Done(c) /\ RoundTripFailed(c)) => calls[c].out.kind = "throw"

\* C10 (under SpecFault): a get whose credentials were rejected throws the authorization
\* error, and a get that fails for any other reason does not throw an error
\* of that kind and message
C10_AuthErrorDistinguishable ==
  \A c \in Clients :
    (Done(c) /\ calls[c].op = "get" /\ RoundTripFailed(c)) =>
      IF calls[c].fault = "auth"
      THEN calls[c].out.kind = "throw" /\ calls[c].out.message = AuthMessage
      ELSE ~(/\ calls[c].out.kind = "throw"
             /\ calls[c].out.name = "GraphQLError"
             /\ calls[c].out.message = AuthMessage)

\* C11: in every bridge variant, a get(p) that the backend evaluates while
\* no document is stored under p returns the empty payload and does not throw
C11_AbsentGetReturnsEmpty ==
  [][\A c \in Clients :
       (/\ calls[c].pc = "sent" /\ calls'[c].pc = "replied"
        /\ calls[c].op = "get"
        /\ Match(docs, calls[c].path) = {})
       => Outcome(variant, "get", calls'[c].resp) = Return("")]_vars

\* the payloads stored under a path
StoredPages(p) == {d.page : d \in {e \in docs : e.filename = p}}

IsPut(c) == calls[c].op \in {"put", "putConfig"}

C13_OneRoundTripPerCall ==
  \A c \in Clients :
    /\ calls[c].pc = "sent" => calls[c].trips = 0
    /\ calls[c].pc \in {"replied", "done"} => calls[c].trips = 1

\* a putConfig whose only round trip failed has thrown
C13_Witness ==
  /\ Done("c1") /\ calls["c1"].op = "putConfig"
  /\ calls["c1"].fault = "transport"
  /\ calls["c1"].out.kind = "throw"
  /\ calls["c1"].trips = 1

\* what the backend holds after it has evaluated the request of a put
AfterPut(p, d) ==
  IF variant = "dsl"
  THEN FaunaEval(docs, Request(variant, "put", p, d))[1]
  ELSE ServerHandle(docs, Request(variant, "put", p, d), TRUE)[1]

\* C14 (under SpecFault): in every variant, putConfig(p, d) sends the
\* request put(p, d) sends, the backend holds after it what it holds after
\* that put, and putConfig throws exactly when put throws on the same
\* response, with the same error
C14_PutConfigIsPut ==
  /\ [](\A c \in Clients :
          (calls[c].op = "putConfig" /\ calls[c].pc # "idle") =>
            /\ Request(variant, "putConfig", calls[c].path, calls[c].data)
                 = Request(variant, "put", calls[c].path, calls[c].data)
            /\ Done(c) =>
                 /\ (calls[c].out.kind = "throw")
                      = (Outcome(variant, "put", calls[c].resp).kind = "throw")
                 /\ calls[c].out.kind = "throw"
                      => calls[c].out = Outcome(variant, "put", calls[c].resp))
  /\ [][\A c \in Clients :
          (/\ calls[c].op = "putConfig"
           /\ calls[c].pc = "sent" /\ calls'[c].pc = "replied"
           /\ calls'[c].fault = "none")
          => docs' = AfterPut(calls[c].path, calls[c].data)]_vars

\* a putConfig has overwritten the document of a path and returned
C14_Witness ==
  /\ Done("c1") /\ calls["c1"].op = "putConfig"
  /\ calls["c1"].out = Return(Undefined)
  /\ calls["c1"].data = "y"
  /\ StoredPages(calls["c1"].path) = {"y"}
  /\ Cardinality(docs) = 1

\* C16 (under SpecFault): after any sequence of get, glob, put, putConfig
\* and delete calls, successful or failed, supportsBuilding() returns what
\* it returned at construction, which is true in every variant, and the
\* fields of the bridge are the ones its constructor set
C16_CapabilityAndFieldsFixed ==
  /\ supportsBuilding(variant, bridge.self)
       = supportsBuilding(variant, Construct(variant, bridge.args))
  /\ supportsBuilding(variant, bridge.self) = TRUE
  /\ bridge.self = Construct(variant, bridge.args)

\* a REST bridge built with a root path, after a put that returned and a
\* call whose round trip failed
C16_Witness ==
  /\ variant = "restB"
  /\ bridge.self.rootPath = "/site" /\ bridge.self.domain = "db.other"
  /\ nOps = MaxOps /\ nFaults = 1
  /\ Done("c1") /\ calls["c1"].fault # "none"
  /\ \E p \in Paths : lastPut[p] = "y"

(***************************************************************************)
(* Properties of FaunaStore (checked under SpecStore)                      *)
(***************************************************************************)
\* C15: whatever the constructor arguments and however many calls came
\* before, supportsIndexing() returns false in both FaunaStore revisions,
\* and supportsSeeding() returns true in the first revision and false in
\* the later one
C15_StoreCapabilities ==
  \A i \in 1..Len(store.log) :
    /\ store.log[i].method = "supportsIndexing" => store.log[i].result = FALSE
    /\ store.log[i].method = "supportsSeeding" =>
         store.log[i].result = (store.rev = 1)

\* an in-memory store of the later revision has answered both predicates
C15_Witness ==
  /\ store.rev = 2 /\ store.useMemory /\ store.rootPath = "/site"
  /\ \E i, j \in 1..Len(store.log) :
       /\ store.log[i] = [method |-> "supportsSeeding", result |-> FALSE]
       /\ store.log[j] = [method |-> "supportsIndexing", result |-> FALSE]

(***************************************************************************)
(* Properties of the React components                                      *)
(***************************************************************************)
\* isLocalClient is truthy, or clientId and branch are both provided
ValidLegacySetup(props) ==
  \/ props.isLocalClient = JSTrue
  \/ /\ props.clientId \notin {Null, <<>>}
     /\ props.branch \notin {Null, <<>>}

\* C17 (under SpecProvider): TinaCMSProvider2 throws 'Must provide apiUrl
\* or a client to the TinaWrapper component' exactly when it is given no
\* apiURL, no client with an apiUrl and no valid legacy setup
C17_MustProvideError ==
  provider.out.kind # "none" =>
    ((provider.out.kind = "throw" /\ provider.out.message = MustProvideMessage)
       <=> (/\ provider.props.apiURL \in {Null, <<>>}
            /\ provider.props.clientApiUrl \in {Null, <<>>}
            /\ ~ValidLegacySetup(provider.props)))

\* C18 (under SpecQuery): TinaQueryInner hands the static props unchanged
\* to children whenever the hook reports loading or the query is missing
\* (undefined or empty), and otherwise the same props with data replaced by
\* the live data; while loading it never hands over live data
C18_LiveDataOnlyWhenLoaded ==
  tquery.renders > 0 =>
    /\ (tquery.isLoading \/ tquery.props.query \in {Null, <<>>})
         => tquery.passed = tquery.props
    /\ ~(tquery.isLoading \/ tquery.props.query \in {Null, <<>>})
         => /\ tquery.passed.data = tquery.liveData
            /\ tquery.passed.query = tquery.props.query
            /\ tquery.passed.variables = tquery.props.variables
    /\ tquery.isLoading => tquery.passed.data \in StaticData

\* after a render that handed over the static data while loading, a render
\* with a query and loading finished hands over the live data
C18_Witness ==
  /\ tquery.renders = 2
  /\ ~tquery.isLoading
  /\ tquery.props.query = <<"query">>
  /\ tquery.props.data = "static1"
  /\ tquery.liveData = "live2"
  /\ tquery.passed = [query |-> <<"query">>, variables |-> "vars", data |-> "live2"]

\* C19 (under SpecBoundary): the error screen is displayed exactly when
\* hasError is true and pageRefresh is false; a click on Refresh sets
\* pageRefresh and shows the loader; when the timer fires the boundary is
\* at hasError = false and pageRefresh = false and renders its children;
\* every click on Refresh is eventually followed by a render of the children
C19_RefreshRecovers ==
  /\ []((boundary.screen = "error")
          <=> (boundary.hasError = "true" /\ ~boundary.pageRefresh))
  /\ [][boundary'.clicks = boundary.clicks + 1
          => (boundary'.pageRefresh /\ boundary'.screen = "loader")]_vars
  /\ [][boundary'.timers < boundary.timers
          => /\ boundary'.hasError = "false" /\ ~boundary'.pageRefresh
             /\ boundary'.screen = "children"]_vars
  /\ (boundary.pageRefresh ~> (boundary.screen = "children" /\ ~boundary.pageRefresh))

\* the children are rendered again after two rounds of error and Refresh
C19_Witness ==
  /\ boundary.clicks = 2
  /\ boundary.screen = "children"
  /\ boundary.hasError = "false" /\ ~boundary.pageRefresh
  /\ boundary.message = "m2"
  /\ boundary.timers = 0

\* all but the last element of a sequence
ButLast(h) == IF h = <<>> THEN <<>> ELSE SubSeq(h, 1, Len(h) - 1)

\* C20 (under SpecPicker): after any sequence of navigateNext, navigatePrev
\* and list reloads, the current offset is the last element of
\* offsetHistory (undefined when it is empty), hasPrev holds exactly when
\* the history is non-empty and hasNext exactly when the list has a
\* nextOffset; navigateNext appends list.nextOffset when the list has one
\* and leaves the history unchanged otherwise; navigatePrev removes exactly
\* the last element and does nothing to an empty history
C20_OffsetHistory ==
  /\ [](/\ picker.offset = (IF picker.offsetHistory = <<>> THEN Undefined
                            ELSE picker.offsetHistory[Len(picker.offsetHistory)])
        /\ picker.hasPrev <=> picker.offsetHistory # <<>>
        /\ picker.hasNext <=> picker.nextOffset # Undefined)
  /\ [][(picker'.steps = picker.steps + 1 /\ picker'.event = "navigateNext")
          => picker'.offsetHistory =
               (IF picker.nextOffset # Undefined
                THEN picker.offsetHistory \o <<picker.nextOffset>>
                ELSE picker.offsetHistory)]_vars
  /\ [][(picker'.steps = picker.steps + 1 /\ picker'.event = "navigatePrev")
          => picker'.offsetHistory = ButLast(picker.offsetHistory)]_vars

\* two pages forward and one back, on a list that has a next page
C20_Witness ==
  /\ picker.event = "navigatePrev"
  /\ picker.offsetHistory = <<"o1">>
  /\ picker.offset = "o1"
  /\ picker.hasPrev
  /\ picker.steps = 3

\* C21 (under SpecPicker): whenever the current directory changes, by a
\* click on a directory item or through the breadcrumb, the offset history
\* is empty afterwards, and the list request started for the new directory
\* carries no offset
C21_DirectoryChangeResetsOffsets ==
  [][picker'.directory # picker.directory
       => /\ picker'.offsetHistory = <<>>
          /\ picker'.pending # <<>>
          /\ picker'.pending[Len(picker'.pending)].offset = Undefined]_vars

\* C22 (under SpecPicker): under any interleaving of list requests and
\* their answers, once no request is outstanding the list and listState on
\* display are those of the request started last, and the answer to an
\* older request never replaces the result of a newer one
C22_LatestRequestWins ==
  /\ []((picker.pending = <<>> /\ picker.issued > 0) => picker.shown = picker.issued)
  /\ [][picker'.shown >= picker.shown]_vars

====
